---- MODULE Spec2Model ----
(***************************************************************************)
(* Value and syntax-tree core of liquid-cpp (src/src/common.h): the        *)
(* tagged union Variant, the leaf/branch cell Node, and Node::walk.        *)
(*                                                                         *)
(* Conventions of the model                                                *)
(*   - text is a sequence of character codes (ASCII), so that std::string  *)
(*     comparison is the lexicographic order of the codes;                 *)
(*   - a double is the integer number of hundredths it denotes (3.14 is    *)
(*     314); the values of the model have at most two fractional digits;   *)
(*   - an address is a natural number, 0 is nullptr; the bytes a           *)
(*     StringView may refer to are the cells of Mem;                       *)
(*   - the anonymous union of Variant is the record fields m/x (the first  *)
(*     8-byte word and the member it was written through), len (the        *)
(*     second word) and k/s/a (the std::string or std::vector object that  *)
(*     is constructed in the storage, if any).                             *)
(***************************************************************************)
EXTENDS Integers, Sequences, FiniteSets

VARIABLES
    va,      \* Variant a (left operand / destination)
    vb,      \* Variant b (right operand / source)
    vres,    \* result of the last pure member function applied to (a, b)
    vasg,    \* bookkeeping of the last assignment a = b
    heap,    \* NodeId -> Node cell (free or live)
    nlast,   \* the last Node operation and the trees it was applied to
    uaf,     \* a destroyed Node was read or written
    wstack,  \* call stack of Node::walk: frames [node, it]
    wvisit,  \* sequence of nodes the visitor was invoked on
    wpc      \* "idle", "walking", "done"

vars == <<va, vb, vres, vasg, heap, nlast, uaf, wstack, wvisit, wpc>>
varsVariant == <<va, vb, vres, vasg>>
varsNode == <<heap, nlast, uaf>>
varsWalk == <<wstack, wvisit, wpc>>

(***************************************************************************)
(* Bounds of the exploration                                               *)
(***************************************************************************)
MaxInt == 2          \* long long values are -1 .. MaxInt
MaxPtr == 2          \* opaque addresses are 0 .. MaxPtr
MaxViewLen == 1      \* StringView lengths are 0 .. MaxViewLen

(***************************************************************************)
(* enum EFalsiness                                                         *)
(***************************************************************************)
FALSY_FALSE == 0
FALSY_0 == 1
FALSY_EMPTY_STRING == 2
FALSY_NIL == 4

\* falsiness & flag, for a single-bit flag
HasFlag(falsiness, flag) == (falsiness \div flag) % 2 = 1

Policies == 0 .. (FALSY_0 + FALSY_EMPTY_STRING + FALSY_NIL)

(***************************************************************************)
(* enum class Variant::Type (Type::NIL is Type_NIL, and so on)             *)
(***************************************************************************)
Type_NIL == "NIL"
Type_BOOL == "BOOL"
Type_FLOAT == "FLOAT"
Type_INT == "INT"
Type_STRING == "STRING"
Type_STRING_VIEW == "STRING_VIEW"
Type_ARRAY == "ARRAY"
Type_VARIABLE == "VARIABLE"
Type_POINTER == "POINTER"

VariantTypes == {Type_NIL, Type_BOOL, Type_FLOAT, Type_INT, Type_STRING, Type_STRING_VIEW, Type_ARRAY, Type_VARIABLE, Type_POINTER}

(***************************************************************************)
(* Text helpers (std::string)                                              *)
(***************************************************************************)
RECURSIVE StrLessFrom(_, _, _)
StrLessFrom(s, t, k) ==
    IF k > Len(s) \/ k > Len(t) THEN Len(s) < Len(t)
    ELSE IF s[k] < t[k] THEN TRUE
    ELSE IF s[k] > t[k] THEN FALSE
    ELSE StrLessFrom(s, t, k + 1)

Min(x, y) == IF x < y THEN x ELSE y

\* std::string operator< : lexicographic on the bytes
StrLess(s, t) == StrLessFrom(s, t, 1)

RECURSIVE DecDigits(_)
DecDigits(n) == IF n < 10 THEN <<48 + n>> ELSE Append(DecDigits(n \div 10), 48 + (n % 10))

\* std::to_string(long long)
to_string(i) == IF i < 0 THEN <<45>> \o DecDigits(0 - i) ELSE DecDigits(i)

\* The bytes a StringView may point into: "12.5\0"
Mem == <<49, 50, 46, 53, 0>>

\* text.c_str(): the bytes followed by the terminating NUL
CStr(s) == Append(s, 0)

\* the NUL-terminated bytes starting at address view
CStrAt(view) == SubSeq(Mem, view, Len(Mem))

\* string(view, len)
StringOf(view, len) == SubSeq(Mem, view, view + len - 1)

IsSpace(c) == c = 32 \/ (c >= 9 /\ c <= 13)
IsDigit(c) == c >= 48 /\ c <= 57

RECURSIVE SkipSpace(_, _)
SkipSpace(cs, p) == IF IsSpace(cs[p]) THEN SkipSpace(cs, p + 1) ELSE p

RECURSIVE DigitsEnd(_, _)
DigitsEnd(cs, p) == IF IsDigit(cs[p]) THEN DigitsEnd(cs, p + 1) ELSE p

RECURSIVE DigitsVal(_, _, _)
DigitsVal(cs, p, acc) ==
    IF IsDigit(cs[p]) THEN DigitsVal(cs, p + 1, acc * 10 + (cs[p] - 48)) ELSE acc

\* atoll on a NUL-terminated byte sequence: blanks, a sign, decimal digits
Atoll(cs) ==
    LET p0 == SkipSpace(cs, 1)
        neg == cs[p0] = 45
        p1 == IF cs[p0] = 45 \/ cs[p0] = 43 THEN p0 + 1 ELSE p0
        n == DigitsVal(cs, p1, 0)
    IN IF neg THEN 0 - n ELSE n

\* atof on a NUL-terminated byte sequence, in hundredths: blanks, a sign,
\* decimal digits, a point and fractional digits (the texts of the model hold
\* no exponent, hexadecimal prefix, "inf" or "nan")
Atof(cs) ==
    LET p0 == SkipSpace(cs, 1)
        neg == cs[p0] = 45
        p1 == IF cs[p0] = 45 \/ cs[p0] = 43 THEN p0 + 1 ELSE p0
        ip == DigitsVal(cs, p1, 0)
        p2 == DigitsEnd(cs, p1)
        d1 == IF cs[p2] = 46 /\ IsDigit(cs[p2 + 1]) THEN cs[p2 + 1] - 48 ELSE 0
        d2 == IF cs[p2] = 46 /\ IsDigit(cs[p2 + 1]) /\ IsDigit(cs[p2 + 2])
              THEN cs[p2 + 2] - 48 ELSE 0
        n == ip * 100 + d1 * 10 + d2
    IN IF neg THEN 0 - n ELSE n

\* snprintf(buffer, "%f", f): sign, integer digits, '.', six fractional digits
FormatF(f) ==
    LET abs == IF f < 0 THEN 0 - f ELSE f
        sign == IF f < 0 THEN <<45>> ELSE <<>>
    IN sign \o DecDigits(abs \div 100) \o <<46>>
            \o <<48 + ((abs % 100) \div 10), 48 + (abs % 10), 48, 48, 48, 48>>

RECURSIVE FindDot(_, _)
\* for (i = 0; i < length && buffer[i] != '.'; ++i);   (0-based i)
FindDot(buffer, i) ==
    IF i < Len(buffer) /\ buffer[i + 1] # 46 THEN FindDot(buffer, i + 1) ELSE i

RECURSIVE TrimZeros(_, _, _)
\* for (j = length; i < length && j > i && buffer[j-1] == '0'; --j);
TrimZeros(buffer, i, j) ==
    IF i < Len(buffer) /\ j > i /\ buffer[j] = 48 THEN TrimZeros(buffer, i, j - 1) ELSE j

\* Variant::getString, case FLOAT
FloatToString(f) ==
    LET buffer == FormatF(f)
        i == FindDot(buffer, 0)
        j == TrimZeros(buffer, i, Len(buffer))
    IN SubSeq(buffer, 1, IF j = i + 1 THEN i ELSE j)

(***************************************************************************)
(* struct Variant                                                          *)
(*   type  the discriminant                                                *)
(*   m, x  the first word of the union and the member it was written       *)
(*         through: "b", "f", "i", "p", "v", "view"; "none" when the word  *)
(*         holds no determinate scalar (never written, or occupied by the  *)
(*         string/vector object)                                           *)
(*   len   the second word (the length of a view)                          *)
(*   k     the object constructed in the storage: "s" a std::string with   *)
(*         text s, "a" a std::vector<Variant> with elements a, "none";     *)
(*         "bad" when a scalar store overwrote the bytes of a live object  *)
(***************************************************************************)
MkVariant(type, m, x, len, k, s, a) ==
    [type |-> type, m |-> m, x |-> x, len |-> len, k |-> k, s |-> s, a |-> a]

\* Variant()
VariantNil == MkVariant(Type_NIL, "none", 0, 0, "none", <<>>, <<>>)
\* Variant(std::nullptr_t)
VariantNullptr == MkVariant(Type_NIL, "p", 0, 0, "none", <<>>, <<>>)
\* Variant(bool b)
VariantBool(b) == MkVariant(Type_BOOL, "b", IF b THEN 1 ELSE 0, 0, "none", <<>>, <<>>)
\* Variant(double f)
VariantFloat(f) == MkVariant(Type_FLOAT, "f", f, 0, "none", <<>>, <<>>)
\* Variant(long long i)
VariantInt(i) == MkVariant(Type_INT, "i", i, 0, "none", <<>>, <<>>)
\* Variant(const std::string& s)
VariantString(s) == MkVariant(Type_STRING, "none", 0, 0, "s", s, <<>>)
\* Variant(const char* view, size_t len)
VariantView(view, len) == MkVariant(Type_STRING_VIEW, "view", view, len, "none", <<>>, <<>>)
\* Variant(Variable v)
VariantVariable(v) == MkVariant(Type_VARIABLE, "v", v, 0, "none", <<>>, <<>>)
\* Variant(void* p)
VariantPointer(p) == MkVariant(IF p # 0 THEN Type_POINTER ELSE Type_NIL, "p", p, 0, "none", <<>>, <<>>)
\* Variant(const std::vector<Variant>& a)
VariantArray(a) == MkVariant(Type_ARRAY, "none", 0, 0, "a", <<>>, a)

\* void*, Variable and const char* are one pointer wide and share the word
PointerMembers == {"p", "v", "view"}

\* a view that refers to bytes of one NUL-terminated text of Mem
ValidView(view, len) ==
    /\ view >= 1 /\ view <= Len(Mem)
    /\ len >= 0 /\ view + len - 1 <= Len(Mem)
    /\ \A q \in view .. (view + len - 1) : Mem[q] # 0
    /\ \E q \in view .. Len(Mem) : Mem[q] = 0

\* The member functions read the union through the member the discriminant
\* selects; that read is defined when that member is the one the storage holds.
RECURSIVE Readable(_)
Readable(v) ==
    CASE v.type = Type_NIL -> TRUE
      [] v.type = Type_BOOL -> v.m = "b" /\ v.k = "none"
      [] v.type = Type_FLOAT -> v.m = "f" /\ v.k = "none"
      [] v.type = Type_INT -> v.m = "i" /\ v.k = "none"
      [] v.type = Type_STRING -> v.k = "s"
      [] v.type = Type_ARRAY -> v.k = "a" /\ \A n \in 1 .. Len(v.a) : Readable(v.a[n])
      [] v.type = Type_STRING_VIEW ->
            v.m \in PointerMembers /\ v.k = "none" /\ ValidView(v.x, v.len)
      [] OTHER -> v.m \in PointerMembers /\ v.k = "none"

\* Does the Variant hold a payload that owns storage?
OwnsStorage(v) == v.k \in {"s", "a"}

(***************************************************************************)
(* Variant::isTruthy                                                       *)
(***************************************************************************)
\* isTruthy with nil falsy whatever the policy says
isTruthyNilAlwaysFalsy(v, falsiness) ==
    CASE v.type = Type_BOOL -> v.x # 0
      [] v.type = Type_INT -> ~(HasFlag(falsiness, FALSY_0) /\ v.x = 0)
      [] v.type = Type_FLOAT -> ~(HasFlag(falsiness, FALSY_0) /\ v.x = 0)
      [] v.type = Type_POINTER -> ~(HasFlag(falsiness, FALSY_NIL) /\ v.x = 0)
      [] v.type = Type_NIL -> FALSE
      [] v.type = Type_STRING -> ~(HasFlag(falsiness, FALSY_EMPTY_STRING) /\ Len(v.s) = 0)
      [] OTHER -> TRUE

isTruthy(v, falsiness) ==
    CASE v.type = Type_BOOL -> v.x # 0
      [] v.type = Type_INT -> ~(HasFlag(falsiness, FALSY_0) /\ v.x = 0)
      [] v.type = Type_FLOAT -> ~(HasFlag(falsiness, FALSY_0) /\ v.x = 0)
      [] v.type = Type_POINTER -> ~(HasFlag(falsiness, FALSY_NIL) /\ v.x = 0)
      [] v.type = Type_NIL -> ~HasFlag(falsiness, FALSY_NIL)
      [] v.type = Type_STRING -> ~(HasFlag(falsiness, FALSY_EMPTY_STRING) /\ Len(v.s) = 0)
      [] OTHER -> TRUE

(***************************************************************************)
(* Variant::operator==                                                     *)
(***************************************************************************)
RECURSIVE VariantEq(_, _)
VariantEq(a, v) ==
    IF a.type # v.type THEN FALSE
    ELSE CASE a.type = Type_STRING -> a.s = v.s
           [] a.type = Type_INT -> a.x = v.x
           [] a.type = Type_ARRAY ->
                /\ Len(a.a) = Len(v.a)
                /\ \A n \in 1 .. Len(a.a) : VariantEq(a.a[n], v.a[n])
           [] a.type = Type_FLOAT -> a.x = v.x
           [] a.type = Type_NIL -> TRUE
           [] a.type = Type_BOOL -> a.x = v.x
           [] OTHER -> a.x = v.x

(***************************************************************************)
(* Variant::getString, getInt, getFloat                                    *)
(***************************************************************************)
getString(v) ==
    CASE v.type = Type_STRING -> v.s
      [] v.type = Type_STRING_VIEW -> StringOf(v.x, v.len)
      [] v.type = Type_FLOAT -> FloatToString(v.x)
      [] v.type = Type_INT -> to_string(v.x)
      [] v.type = Type_BOOL -> IF v.x # 0 THEN <<116, 114, 117, 101>>
                                     ELSE <<102, 97, 108, 115, 101>>
      [] OTHER -> <<>>

\* (long long)f : truncation toward zero
TruncToInt(f) == IF f < 0 THEN 0 - ((0 - f) \div 100) ELSE f \div 100

getInt(v) ==
    CASE v.type = Type_INT -> v.x
      [] v.type = Type_FLOAT -> TruncToInt(v.x)
      [] v.type = Type_STRING -> Atoll(CStr(v.s))
      [] v.type = Type_STRING_VIEW -> Atoll(CStrAt(v.x))
      [] OTHER -> 0

getFloat(v) ==
    CASE v.type = Type_INT -> v.x * 100
      [] v.type = Type_FLOAT -> v.x
      [] v.type = Type_STRING -> Atof(CStr(v.s))
      [] v.type = Type_STRING_VIEW -> Atof(CStrAt(v.x))
      [] OTHER -> 0

(***************************************************************************)
(* Variant::hash.  size_t is reduced to HashBits bits; std::hash of an     *)
(* integer, bool or pointer is the value itself, std::hash<double> maps    *)
(* zero to 0, std::hash<string> is a function of the bytes.                *)
(***************************************************************************)
HashBits == 16
HashMod == 2 ^ HashBits

RECURSIVE HashBytes(_, _)
HashBytes(s, h) ==
    IF s = <<>> THEN h ELSE HashBytes(Tail(s), (h * 31 + Head(s) + 1) % HashMod)

HashString(s) == HashBytes(s, 7)
HashScalar(x) == x % HashMod
HashDouble(f) == IF f = 0 THEN 0 ELSE ((f % HashMod) * 31 + 17) % HashMod

hash(v) ==
    CASE v.type = Type_STRING -> HashString(v.s)
      [] v.type = Type_STRING_VIEW -> HashString(getString(v))
      [] v.type = Type_INT -> HashScalar(v.x)
      [] v.type = Type_ARRAY -> 0
      [] v.type = Type_FLOAT -> HashDouble(v.x)
      [] v.type = Type_NIL -> 0
      [] v.type = Type_BOOL -> HashScalar(v.x)
      [] OTHER -> HashScalar(v.x)

(***************************************************************************)
(* Variant::operator<                                                      *)
(***************************************************************************)
VariantLess(a, v) ==
    CASE a.type = Type_INT -> a.x < getInt(v)
      [] a.type = Type_FLOAT -> a.x < getFloat(v)
      [] a.type = Type_STRING ->
            IF v.type = Type_STRING THEN StrLess(a.s, v.s) ELSE StrLess(a.s, getString(v))
      [] a.type = Type_STRING_VIEW -> StrLess(getString(v), StringOf(a.x, a.len))
      [] OTHER -> a.x < v.x

\* operator< of the remaining discriminants reads p of both operands
LessReadable(a, v) ==
    /\ Readable(a) /\ Readable(v)
    /\ a.type \in {Type_INT, Type_FLOAT, Type_STRING, Type_STRING_VIEW}
        \/ (a.m \in PointerMembers /\ v.m \in PointerMembers /\ v.k = "none")

(***************************************************************************)
(* Variant::operator=.  The assignment is the sequence of stores,          *)
(* placement constructions and destructor calls the code executes on the   *)
(* storage of *this; AssignSteps lists them as the code's switch selects   *)
(* them, ApplyStep executes one on the storage.                            *)
(*   st.v      the storage of *this                                        *)
(*   st.dtors  destructor calls executed on a payload of *this             *)
(*   st.lost   live string/vector objects whose bytes were overwritten     *)
(*             (by a store or a placement new) without a destructor call   *)
(*   st.ok     FALSE once a step used a member the storage does not hold   *)
(***************************************************************************)
Overwrite(st) ==
    IF st.v.k \in {"s", "a"} THEN [st EXCEPT !.lost = @ + 1, !.v.k = "bad"] ELSE st

ApplyStep(st, step, src) ==
    CASE step = "a.~vector" ->
            IF st.v.k = "a"
            THEN [st EXCEPT !.v.k = "none", !.v.a = <<>>, !.dtors = @ + 1]
            ELSE [st EXCEPT !.ok = FALSE]
      [] step = "s.~string" ->
            IF st.v.k = "s"
            THEN [st EXCEPT !.v.k = "none", !.v.s = <<>>, !.dtors = @ + 1]
            ELSE [st EXCEPT !.ok = FALSE]
      [] step = "i = 0" ->
            [Overwrite(st) EXCEPT !.v.m = "i", !.v.x = 0]
      [] step = "new(&s) string" ->
            [Overwrite(st) EXCEPT !.v.k = "s", !.v.s = <<>>, !.v.a = <<>>,
                                  !.v.m = "none", !.v.x = 0, !.v.len = 0]
      [] step = "new(&a) vector" ->
            [Overwrite(st) EXCEPT !.v.k = "a", !.v.s = <<>>, !.v.a = <<>>,
                                  !.v.m = "none", !.v.x = 0, !.v.len = 0]
      [] step = "s = v.s" ->
            IF st.v.k = "s" THEN [st EXCEPT !.v.s = src.s] ELSE [st EXCEPT !.ok = FALSE]
      [] step = "a = v.a" ->
            IF st.v.k = "a" THEN [st EXCEPT !.v.a = src.a] ELSE [st EXCEPT !.ok = FALSE]
      [] step = "view = v.view; len = v.len" ->
            [Overwrite(st) EXCEPT !.v.m = "view", !.v.x = src.x, !.v.len = src.len]
      [] step = "f = v.f" ->
            [Overwrite(st) EXCEPT !.v.m = src.m, !.v.x = src.x]

RECURSIVE ApplySteps(_, _, _)
ApplySteps(st, steps, src) ==
    IF steps = <<>> THEN st
    ELSE ApplySteps(ApplyStep(st, Head(steps), src), Tail(steps), src)

\* The statements Variant::operator= executes for *this of discriminant `type`
\* and a source v.  The discriminant of *this is not among the things written.
AssignSteps(type, v) ==
    CASE v.type = Type_STRING ->
            (IF type # Type_STRING
             THEN (IF v.type = Type_ARRAY THEN <<"a.~vector">> ELSE <<"i = 0">>)
                  \o <<"new(&s) string">>
             ELSE <<>>)
            \o <<"s = v.s">>
      [] v.type = Type_ARRAY ->
            (IF type # Type_ARRAY
             THEN (IF v.type = Type_STRING THEN <<"s.~string">> ELSE <<"i = 0">>)
                  \o <<"new(&a) vector">>
             ELSE <<>>)
            \o <<"a = v.a">>
      [] v.type = Type_STRING_VIEW -> <<"view = v.view; len = v.len">>
      [] OTHER -> <<"f = v.f">>

\* Variant& operator = (const Variant& v), and the part of operator = (Variant&& v)
\* that acts on *this
AssignResult(a, v) ==
    ApplySteps([v |-> a, dtors |-> 0, lost |-> 0, ok |-> TRUE], AssignSteps(a.type, v), v)

\* The source after operator = (Variant&& v): a moved-from string or vector is empty
MovedFrom(v) ==
    CASE v.type = Type_STRING -> [v EXCEPT !.s = <<>>]
      [] v.type = Type_ARRAY -> [v EXCEPT !.a = <<>>]
      [] OTHER -> v

(***************************************************************************)
(* Input values of the Variant operations                                  *)
(***************************************************************************)
IntVals == (0 - 1) .. MaxInt
FloatVals == {0, 300, 314, 0 - 150}
PtrVals == 0 .. MaxPtr
\* "", "1", "12", "a", "12.5"
StrVals == {<<>>, <<49>>, <<49, 50>>, <<97>>, <<49, 50, 46, 53>>}
ViewVals == {w \in (1 .. Len(Mem)) \X (0 .. MaxViewLen) : ValidView(w[1], w[2])}
ArrVals == {<<>>, <<VariantInt(1)>>, <<VariantInt(1), VariantString(<<97>>)>>}

Constructed ==
    {VariantNil, VariantNullptr}
    \cup {VariantBool(b) : b \in BOOLEAN}
    \cup {VariantFloat(f) : f \in FloatVals}
    \cup {VariantInt(i) : i \in IntVals}
    \cup {VariantString(s) : s \in StrVals}
    \cup {VariantView(w[1], w[2]) : w \in ViewVals}
    \cup {VariantVariable(p) : p \in PtrVals}
    \cup {VariantPointer(p) : p \in PtrVals}
    \cup {VariantArray(a) : a \in ArrVals}

NoResult == [op |-> "none", fl |-> 0, r |-> 0, h1 |-> 0, h2 |-> 0]
NoAssign == [kind |-> "none", a0 |-> VariantNil, b0 |-> VariantNil, dtors |-> 0, lost |-> 0]

(***************************************************************************)
(* Actions on the two Variants a and b.  A scenario constructs a and b,    *)
(* assigns b to a at most once, and calls member functions.                *)
(***************************************************************************)
\* a value is constructed into a (its previous value was destroyed)
ConstructA ==
    /\ \E v \in Constructed : va' = v
    /\ vres' = NoResult /\ vasg' = NoAssign
    /\ UNCHANGED <<vb, varsNode, varsWalk>>

ConstructB ==
    /\ vasg.kind = "none"
    /\ \E v \in Constructed : vb' = v
    /\ vres' = NoResult /\ vasg' = NoAssign
    /\ UNCHANGED <<va, varsNode, varsWalk>>

\* a = b
CopyAssign ==
    /\ vasg.kind = "none"
    /\ Readable(vb)
    /\ LET st == AssignResult(va, vb)
       IN /\ st.ok
          /\ va' = st.v
          /\ vasg' = [kind |-> "copy", a0 |-> va, b0 |-> vb,
                      dtors |-> st.dtors, lost |-> st.lost]
    /\ vres' = NoResult
    /\ UNCHANGED <<vb, varsNode, varsWalk>>

\* a = move(b)
MoveAssign ==
    /\ vasg.kind = "none"
    /\ Readable(vb)
    /\ LET st == AssignResult(va, vb)
       IN /\ st.ok
          /\ va' = st.v
          /\ vasg' = [kind |-> "move", a0 |-> va, b0 |-> vb,
                      dtors |-> st.dtors, lost |-> st.lost]
    /\ vb' = MovedFrom(vb)
    /\ vres' = NoResult
    /\ UNCHANGED <<varsNode, varsWalk>>

\* a.isTruthy(falsiness)
CallIsTruthy ==
    /\ Readable(va)
    /\ \E falsiness \in Policies :
          vres' = [NoResult EXCEPT !.op = "isTruthy", !.fl = falsiness,
                                   !.r = isTruthy(va, falsiness)]
    /\ UNCHANGED <<va, vb, vasg, varsNode, varsWalk>>

\* a == b, a.hash(), b.hash()
CallEqualsHash ==
    /\ Readable(va) /\ Readable(vb)
    /\ vres' = [NoResult EXCEPT !.op = "==", !.r = VariantEq(va, vb),
                                !.h1 = hash(va), !.h2 = hash(vb)]
    /\ UNCHANGED <<va, vb, vasg, varsNode, varsWalk>>

\* a < b
CallLess ==
    /\ LessReadable(va, vb)
    /\ vres' = [NoResult EXCEPT !.op = "<", !.r = VariantLess(va, vb)]
    /\ UNCHANGED <<va, vb, vasg, varsNode, varsWalk>>

\* a.getInt(), a.getFloat()
CallGetNumber ==
    /\ Readable(va)
    /\ vres' = [NoResult EXCEPT !.op = "getNumber", !.h1 = getInt(va), !.h2 = getFloat(va)]
    /\ UNCHANGED <<va, vb, vasg, varsNode, varsWalk>>

\* a.getString()
CallGetString ==
    /\ Readable(va)
    /\ vres' = [NoResult EXCEPT !.op = "getString", !.r = getString(va)]
    /\ UNCHANGED <<va, vb, vasg, varsNode, varsWalk>>

NextVariant ==
    \/ ConstructA
    \/ ConstructB
    \/ CopyAssign
    \/ MoveAssign
    \/ CallIsTruthy
    \/ CallEqualsHash
    \/ CallLess
    \/ CallGetNumber
    \/ CallGetString

(***************************************************************************)
(* struct Node.  A Node object is a cell of the heap, named by a NodeId;   *)
(* a unique_ptr<Node> is the id of the cell it owns.  A live cell no       *)
(* children sequence holds is a Node the program holds by value (a local,  *)
(* the holder of a tree root).                                             *)
(*   type      the NodeType pointer, 0 is nullptr (a leaf)                 *)
(*   children  the payload of a branch                                     *)
(*   variant   the payload of a leaf                                       *)
(***************************************************************************)
MaxNodes == 4        \* Node objects alive at one time
MaxRoots == 2        \* Nodes the program holds by value at one time

NodeIds == 1 .. MaxNodes
NodeTypePtrs == {1, 2}
\* the source position the parser records in a Node it creates
Position == [line |-> 1, column |-> 2]
\* leaf values: 1, "a"
LeafVals == {VariantInt(1), VariantString(<<97>>)}

FreeCell ==
    [live |-> FALSE, type |-> 0, line |-> 0, column |-> 0,
     children |-> <<>>, variant |-> VariantNil]

Range(q) == {q[n] : n \in 1 .. Len(q)}

LiveIds(h) == {n \in DOMAIN h : h[n].live}
FreeIds(h) == NodeIds \ LiveIds(h)

\* operator new: the cell handed out is the free cell of least address
Alloc(h) == CHOOSE n \in FreeIds(h) : \A o \in FreeIds(h) : n <= o

RECURSIVE Subtree(_, _)
\* a node and everything it owns
Subtree(h, n) ==
    IF h[n].live /\ h[n].type # 0
    THEN {n} \cup UNION {Subtree(h, h[n].children[c]) : c \in 1 .. Len(h[n].children)}
    ELSE {n}

Descendants(h, n) == Subtree(h, n) \ {n}
Owners(h, n) == {o \in LiveIds(h) : o # n /\ n \in Range(h[o].children)}
IsRoot(h, n) == h[n].live /\ Owners(h, n) = {}
Roots(h) == {n \in LiveIds(h) : IsRoot(h, n)}

\* Variant(const Variant& v): the member the discriminant selects is copied
VariantCopy(v) ==
    CASE v.type = Type_STRING -> VariantString(v.s)
      [] v.type = Type_ARRAY -> VariantArray(v.a)
      [] v.type = Type_STRING_VIEW -> VariantView(v.x, v.len)
      [] v.type = Type_BOOL -> VariantBool(v.x # 0)
      [] v.type = Type_FLOAT -> VariantFloat(v.x)
      [] v.type = Type_INT -> VariantInt(v.x)
      [] v.type = Type_POINTER -> MkVariant(Type_POINTER, "p", v.x, 0, "none", <<>>, <<>>)
      [] v.type = Type_VARIABLE -> VariantVariable(v.x)
      [] OTHER -> VariantNil

\* Node(const Variant& v)
LeafCell(v) ==
    [live |-> TRUE, type |-> 0, line |-> 0, column |-> 0,
     children |-> <<>>, variant |-> VariantCopy(v)]

\* Node(const NodeType* type)
BranchCell(type) ==
    [live |-> TRUE, type |-> type, line |-> 0, column |-> 0,
     children |-> <<>>, variant |-> VariantNil]

\* ~Node(), and the deallocation of the cell: the payload goes with it
DestroyNode(h, n) == [o \in NodeIds |-> IF o \in Subtree(h, n) THEN FreeCell ELSE h[o]]

\* children.~vector<unique_ptr<Node>>(): every owned child is destroyed
DestroyChildren(h, n) ==
    LET gone == UNION {Subtree(h, h[n].children[c]) : c \in 1 .. Len(h[n].children)}
    IN [o \in NodeIds |->
            IF o \in gone THEN FreeCell
            ELSE IF o = n THEN [h[o] EXCEPT !.children = <<>>]
            ELSE h[o]]

RECURSIVE CloneNode(_, _)
RECURSIVE CloneChildren(_, _, _)

\* a shallow copy: the copy points at the children of the node copied
CloneChildrenShared(h, d, from) == [h EXCEPT ![d].children = from]

\* the loop  for (it ...) children.push_back(make_unique<Node>(child)), child being **it
\* of the node d, over the children `from` of the node copied
CloneChildren(h, d, from) ==
    IF from = <<>> THEN h
    ELSE LET r == CloneNode(h, Head(from))
         IN CloneChildren([r.h EXCEPT ![d].children = Append(@, r.id)], d, Tail(from))

\* make_unique<Node>(n), i.e. Node(const Node& node) into a fresh cell
CloneNode(h, n) ==
    LET id == Alloc(h)
        cell == [live |-> TRUE, type |-> h[n].type, line |-> h[n].line,
                 column |-> h[n].column, children |-> <<>>,
                 variant |-> IF h[n].type # 0 THEN VariantNil
                             ELSE VariantCopy(h[n].variant)]
        h1 == [h EXCEPT ![id] = cell]
    IN [h |-> IF h[n].type # 0 THEN CloneChildren(h1, id, h[n].children) ELSE h1,
        id |-> id]

\* Node& operator = (const Node& n), for a destination d
\*   released  how often the previous payload of d was destructed
NodeCopyAssign(h, d, n) ==
    LET h1 == IF h[d].type # 0 THEN DestroyChildren(h, d) ELSE h
        h2 == [h1 EXCEPT ![d].children = <<>>, ![d].variant = VariantNil]
        h3 == IF h[n].type # 0 THEN CloneChildren(h2, d, h[n].children) ELSE h2
    IN [h |-> [h3 EXCEPT ![d].type = h[n].type],
        released |-> IF h[d].type # 0 THEN 1 ELSE 0,
        uaf |-> FALSE]

\* std::vector move assignment  children = move(n.children)  destroys the
\* elements the destination held and takes the buffer of the source; the order
\* of the two is the library's.
VectorMoveOrders == {"take-then-destroy", "destroy-then-take"}

\* Node& operator = (Node&& n), for a destination d
NodeMoveAssign(h, d, n, order) ==
    IF h[d].type # 0
    THEN IF h[n].type = 0
         THEN \* Variant v = move(n.variant); type = n.type;
              \* children.~vector(); new(&variant) Variant(move(v));
              LET v == VariantCopy(h[n].variant)
                  h1 == [h EXCEPT ![n].variant = MovedFrom(@)]
                  h2 == DestroyChildren(h1, d)
              IN [h |-> [h2 EXCEPT ![d].type = 0, ![d].variant = v],
                  released |-> 1, uaf |-> FALSE]
         ELSE \* type = n.type; children = move(n.children);
              IF order = "take-then-destroy" \/ n \notin Descendants(h, d)
              THEN LET kids == h[n].children
                       h1 == [h EXCEPT ![n].children = <<>>]
                       h2 == DestroyChildren(h1, d)
                   IN [h |-> [h2 EXCEPT ![d].type = h[n].type, ![d].children = kids],
                       released |-> 1, uaf |-> FALSE]
              ELSE \* n dies with the old elements; its buffer is read afterwards
                   LET kids == h[n].children
                       h2 == DestroyChildren(h, d)
                   IN [h |-> [h2 EXCEPT ![d].type = h[n].type, ![d].children = kids],
                       released |-> 1, uaf |-> TRUE]
    ELSE \* the variant of d is not destructed
         IF h[n].type # 0
         THEN \* new(&children) vector(); children = move(n.children);
              [h |-> [h EXCEPT ![d].type = h[n].type, ![d].variant = VariantNil,
                               ![d].children = h[n].children, ![n].children = <<>>],
               released |-> 0, uaf |-> FALSE]
         ELSE \* new(&variant) Variant(move(n.variant));
              [h |-> [h EXCEPT ![d].type = 0, ![d].variant = VariantCopy(h[n].variant),
                               ![n].variant = MovedFrom(@)],
               released |-> 0, uaf |-> FALSE]

\* op: the operation; touched: the roots of the trees it was applied to (as the
\* destination, or as the source of a move); dst, src: the copy and the Node
\* copied, for a copy construction
NodeOp(op, touched, dst, src) == [op |-> op, touched |-> touched, dst |-> dst, src |-> src]
NoNodeOp == NodeOp("none", {}, 0, 0)

\* the Node held by value that owns n, directly or through other Nodes
RECURSIVE RootOf(_, _)
RootOf(h, n) ==
    IF Owners(h, n) = {} THEN n ELSE RootOf(h, CHOOSE o \in Owners(h, n) : TRUE)

\* Does the payload of the cell own storage that a destructor must release?
\* (~Variant() does nothing for the other discriminants)
PayloadOwns(cell) ==
    IF cell.type # 0 THEN TRUE ELSE OwnsStorage(cell.variant)

(***************************************************************************)
(* Actions on the Node heap.  The program is single-threaded: no Node is   *)
(* constructed, assigned or destroyed while a walk is in progress, and     *)
(* nothing is explored past a use of a destroyed Node.                     *)
(***************************************************************************)
Quiet == wpc = "idle" /\ ~uaf

\* Parsed(cell): node.line = ...; node.column = ...;  the parser records the
\* source position in the Node it has constructed
Parsed(cell) == [cell EXCEPT !.line = Position.line, !.column = Position.column]

\* Node leaf(v);   with its position
NewLeaf ==
    /\ Quiet /\ FreeIds(heap) # {} /\ Cardinality(Roots(heap)) < MaxRoots
    /\ \E v \in LeafVals : heap' = [heap EXCEPT ![Alloc(heap)] = Parsed(LeafCell(v))]
    /\ nlast' = NoNodeOp
    /\ UNCHANGED <<uaf, varsVariant, varsWalk>>

\* Node branch(type);   with its position
NewBranch ==
    /\ Quiet /\ FreeIds(heap) # {} /\ Cardinality(Roots(heap)) < MaxRoots
    /\ \E type \in NodeTypePtrs :
          heap' = [heap EXCEPT ![Alloc(heap)] = Parsed(BranchCell(type))]
    /\ nlast' = NoNodeOp
    /\ UNCHANGED <<uaf, varsVariant, varsWalk>>

\* p.children.push_back(make_unique<Node>(move(c))) for a Node c held by value:
\* the heap copy takes the payload of c and c goes out of scope; the cell of c
\* stands for the heap copy.
AddChildTo(p, c) ==
    /\ Quiet
    /\ heap[p].type # 0
    /\ IsRoot(heap, c)
    /\ p \notin Subtree(heap, c)
    /\ heap' = [heap EXCEPT ![p].children = Append(@, c)]
    /\ nlast' = NodeOp("add-child", {RootOf(heap, p), c}, 0, 0)
    /\ UNCHANGED <<uaf, varsVariant, varsWalk>>

AddChild == \E p \in LiveIds(heap), c \in LiveIds(heap) : AddChildTo(p, c)

\* p.children.pop_back()
RemoveChildOf(p) ==
    /\ Quiet
    /\ heap[p].type # 0 /\ heap[p].children # <<>>
    /\ LET c == heap[p].children[Len(heap[p].children)]
           h1 == [heap EXCEPT ![p].children = SubSeq(@, 1, Len(@) - 1)]
       IN heap' = DestroyNode(h1, c)
    /\ nlast' = NodeOp("remove-child", {RootOf(heap, p)}, 0, 0)
    /\ UNCHANGED <<uaf, varsVariant, varsWalk>>

RemoveChild == \E p \in LiveIds(heap) : RemoveChildOf(p)

\* a Node r held by value goes out of scope
DestroyRootAt(r) ==
    /\ Quiet
    /\ IsRoot(heap, r)
    /\ heap' = DestroyNode(heap, r)
    /\ nlast' = NodeOp("destroy", {r}, 0, 0)
    /\ UNCHANGED <<uaf, varsVariant, varsWalk>>

DestroyRoot == \E r \in LiveIds(heap) : DestroyRootAt(r)

\* Node c(o);
CopyConstructOf(o) ==
    /\ Quiet
    /\ Cardinality(Roots(heap)) < MaxRoots
    /\ Cardinality(Subtree(heap, o)) <= Cardinality(FreeIds(heap))
    /\ heap' = CloneNode(heap, o).h
    /\ nlast' = NodeOp("copy-construct", {}, Alloc(heap), o)
    /\ UNCHANGED <<uaf, varsVariant, varsWalk>>

CopyConstruct == \E o \in LiveIds(heap) : CopyConstructOf(o)

\* d = n;   for two Nodes neither of which owns the other
CopyAssignTo(d, n) ==
    /\ Quiet
    /\ d \notin Subtree(heap, n) /\ n \notin Subtree(heap, d)
    /\ Cardinality(Descendants(heap, n))
          <= Cardinality(FreeIds(heap)) + Cardinality(Descendants(heap, d))
    /\ LET r == NodeCopyAssign(heap, d, n)
       IN /\ heap' = r.h
          /\ nlast' = NodeOp("copy-assign", {RootOf(heap, d)}, 0, 0)
    /\ UNCHANGED <<uaf, varsVariant, varsWalk>>

CopyAssignNode == \E d \in LiveIds(heap), n \in LiveIds(heap) : CopyAssignTo(d, n)

\* d = move(n);   n may be owned by d, directly or through other Nodes
MoveAssignTo(d, n, order) ==
    /\ Quiet
    /\ d \notin Subtree(heap, n)
    /\ LET r == NodeMoveAssign(heap, d, n, order)
       IN /\ heap' = r.h
          /\ uaf' = r.uaf
          /\ nlast' = NodeOp("move-assign", {RootOf(heap, d), RootOf(heap, n)}, 0, 0)
    /\ UNCHANGED <<varsVariant, varsWalk>>

\* the order matters only where the vector of d is move-assigned
MoveAssignNode ==
    \E d \in LiveIds(heap), n \in LiveIds(heap) :
        \E order \in IF heap[d].type # 0 /\ heap[n].type # 0
                      THEN VectorMoveOrders ELSE {"take-then-destroy"} :
            MoveAssignTo(d, n, order)

NextNode ==
    \/ NewLeaf
    \/ NewBranch
    \/ AddChild
    \/ RemoveChild
    \/ DestroyRoot
    \/ CopyConstruct
    \/ CopyAssignNode
    \/ MoveAssignNode

(***************************************************************************)
(* Node::walk.  The recursion is the stack wstack of frames [node, it]:    *)
(* it = 0 before the visitor on this node ran, afterwards it is the position of the *)
(* iterator in children (Len + 1 is end()).                                *)
(***************************************************************************)
Top == wstack[Len(wstack)]
Pop == SubSeq(wstack, 1, Len(wstack) - 1)

\* root.walk(callback) is called
WalkStart ==
    /\ Quiet
    /\ \E n \in LiveIds(heap) :
          /\ wstack' = <<[node |-> n, it |-> 0]>>
          /\ wvisit' = <<>>
          /\ wpc' = "walking"
    /\ UNCHANGED <<varsVariant, varsNode>>

\* callback on this node
WalkVisit ==
    /\ wpc = "walking" /\ wstack # <<>> /\ Top.it = 0
    /\ wvisit' = Append(wvisit, Top.node)
    /\ wstack' = [wstack EXCEPT ![Len(wstack)].it = 1]
    /\ UNCHANGED <<wpc, varsVariant, varsNode>>

\* if (type) for (it ...; it != children.end(); ++it) it->get()->walk(callback);
WalkDescend ==
    /\ wpc = "walking" /\ wstack # <<>> /\ Top.it >= 1
    /\ heap[Top.node].type # 0
    /\ Top.it <= Len(heap[Top.node].children)
    /\ wstack' = Append([wstack EXCEPT ![Len(wstack)].it = @ + 1],
                        [node |-> heap[Top.node].children[Top.it], it |-> 0])
    /\ UNCHANGED <<wvisit, wpc, varsVariant, varsNode>>

\* the walk returns as soon as one child was walked
WalkReturnEarly ==
    /\ wpc = "walking" /\ wstack # <<>> /\ Top.it >= 1
    /\ heap[Top.node].type = 0 \/ Top.it > Min(1, Len(heap[Top.node].children))
    /\ wstack' = Pop
    /\ wpc' = IF Len(wstack) = 1 THEN "done" ELSE "walking"
    /\ UNCHANGED <<wvisit, varsVariant, varsNode>>

\* the call returns
WalkReturn ==
    /\ wpc = "walking" /\ wstack # <<>> /\ Top.it >= 1
    /\ heap[Top.node].type = 0 \/ Top.it > Len(heap[Top.node].children)
    /\ wstack' = Pop
    /\ wpc' = IF Len(wstack) = 1 THEN "done" ELSE "walking"
    /\ UNCHANGED <<wvisit, varsVariant, varsNode>>

\* the caller goes on
WalkFinish ==
    /\ wpc = "done"
    /\ wpc' = "idle" /\ wvisit' = <<>>
    /\ UNCHANGED <<wstack, varsVariant, varsNode>>

WalkStep == WalkVisit \/ WalkDescend \/ WalkReturn

NextWalk ==
    \/ WalkStart
    \/ WalkVisit
    \/ WalkDescend
    \/ WalkReturn
    \/ WalkFinish

(***************************************************************************)
(* Specifications                                                          *)
(***************************************************************************)
Init ==
    /\ va = VariantNil /\ vb = VariantNil
    /\ vres = NoResult /\ vasg = NoAssign
    /\ heap = [n \in NodeIds |-> FreeCell]
    /\ nlast = NoNodeOp
    /\ uaf = FALSE
    /\ wstack = <<>> /\ wvisit = <<>> /\ wpc = "idle"


\* the Variant operations; no Node exists
InitVariant ==
    /\ va = VariantNil /\ vb = VariantNil
    /\ vres = NoResult /\ vasg = NoAssign
    /\ heap = <<>>
    /\ nlast = NoNodeOp
    /\ uaf = FALSE
    /\ wstack = <<>> /\ wvisit = <<>> /\ wpc = "idle"

SpecVariant == InitVariant /\ [][NextVariant]_vars

\* construction, assignment and destruction of Nodes
SpecNode == Init /\ [][NextNode]_vars

\* The trees a walk is started on: every tree of at most MaxTree nodes, node 1
\* the root, the owner of a node constructed before the node; `branches` are the
\* nodes that have a NodeType, `rev` stores the children latest first.
MaxTree == 4

RECURSIVE SortedSeq(_, _)
SortedSeq(S, rev) ==
    IF S = {} THEN <<>>
    ELSE LET m == CHOOSE x \in S : \A y \in S : IF rev THEN y <= x ELSE x <= y
         IN <<m>> \o SortedSeq(S \ {m}, rev)

TreeHeap(n, owner, branches, rev) ==
    [i \in 1 .. n |->
        IF i \in branches
        THEN [Parsed(BranchCell(1)) EXCEPT
                 !.children = SortedSeq({j \in 2 .. n : owner[j] = i}, rev)]
        ELSE Parsed(LeafCell(VariantInt(1)))]

TreeHeaps ==
    UNION {{TreeHeap(n, owner, branches, rev) :
                owner \in {f \in [2 .. n -> 1 .. n] : \A j \in 2 .. n : f[j] < j},
                branches \in SUBSET (1 .. n),
                rev \in BOOLEAN} : n \in 1 .. MaxTree}

WellOwned(h) == \A n \in DOMAIN h : \A c \in Range(h[n].children) : h[n].type # 0

InitWalk ==
    /\ heap \in {h \in TreeHeaps : WellOwned(h)}
    /\ va = VariantNil /\ vb = VariantNil
    /\ vres = NoResult /\ vasg = NoAssign
    /\ nlast = NoNodeOp
    /\ uaf = FALSE
    /\ wstack = <<>> /\ wvisit = <<>> /\ wpc = "idle"

\* walks over trees; a walk that was called runs to its return
SpecWalk == InitWalk /\ [][NextWalk]_vars /\ WF_vars(WalkStep)

(***************************************************************************)
(* Properties of Variant, checked under SpecVariant                        *)
(***************************************************************************)

\* C1: after a = b (copy or move) the discriminant of a is the discriminant b
\* had, a compares equal to the value b had, and a string or array that a held
\* and that the assignment replaces by another kind of payload was destructed
\* exactly once, none being overwritten while alive.
C1_AssignTransitions ==
    vasg.kind # "none" =>
        /\ va.type = vasg.b0.type
        /\ VariantEq(va, vasg.b0)
        /\ (OwnsStorage(vasg.a0) /\ vasg.a0.type # vasg.b0.type) =>
                (vasg.dtors = 1 /\ vasg.lost = 0)

\* C6: a == b implies a.hash() == b.hash(), for every pair of Variants.
C6_EqualImpliesHashEqual ==
    (vres.op = "==" /\ vres.r) => vres.h1 = vres.h2

\* C7: for a String a, a < b iff the text of a is lexicographically less than
\* b.getString(); for a StringView a, a < b iff the first len bytes of the view
\* are lexicographically less than b.getString().
C7_TextOrdering ==
    vres.op = "<" =>
        /\ va.type = Type_STRING => (vres.r <=> StrLess(va.s, getString(vb)))
        /\ va.type = Type_STRING_VIEW =>
                (vres.r <=> StrLess(StringOf(va.x, va.len), getString(vb)))

\* The policy flags, read off the value of the bitmask
TreatZeroAsFalse(policy) == policy \in {1, 3, 5, 7}
TreatEmptyStringAsFalse(policy) == policy \in {2, 3, 6, 7}
TreatNilAsFalse(policy) == policy \in {4, 5, 6, 7}

\* The table of truthiness per discriminant
Falsy(v, policy) ==
    \/ v.type = Type_BOOL /\ v.x = 0
    \/ v.type \in {Type_INT, Type_FLOAT} /\ TreatZeroAsFalse(policy) /\ v.x = 0
    \/ v.type = Type_POINTER /\ TreatNilAsFalse(policy) /\ v.x = 0
    \/ v.type = Type_NIL /\ TreatNilAsFalse(policy)
    \/ v.type = Type_STRING /\ TreatEmptyStringAsFalse(policy) /\ v.s = <<>>

\* C8: isTruthy(policy) is the table: Bool is its value; Int and Float are falsy
\* iff the zero flag is set and the value is zero; Pointer is falsy iff the nil
\* flag is set and the pointer is null; Nil is falsy iff the nil flag is set;
\* String is falsy iff the empty-string flag is set and it is empty; StringView,
\* Array and VariableHandle are truthy; no other flag matters.
C8_IsTruthyTable ==
    vres.op = "isTruthy" => (vres.r <=> ~Falsy(va, vres.fl))

\* C8 witness: a null Pointer was found falsy under the nil flag alone
C8_Witness ==
    /\ vres.op = "isTruthy"
    /\ va.type = Type_POINTER /\ va.x = 0
    /\ vres.fl = FALSY_NIL
    /\ ~vres.r

\* C10: getInt() and getFloat() of a StringView are those of the String that
\* holds the first len bytes of the view.
C10_ViewNumbersFromText ==
    (vres.op = "getNumber" /\ va.type = Type_STRING_VIEW) =>
        /\ vres.h1 = getInt(VariantString(StringOf(va.x, va.len)))
        /\ vres.h2 = getFloat(VariantString(StringOf(va.x, va.len)))


(***************************************************************************)
(* Properties of Node, checked under SpecNode                              *)
(***************************************************************************)
RECURSIVE NodeEq(_, _, _, _)
\* the node a of heap g and the node b of heap h are equal trees
NodeEq(g, a, h, b) ==
    /\ g[a].live /\ h[b].live
    /\ g[a].type = h[b].type
    /\ g[a].line = h[b].line /\ g[a].column = h[b].column
    /\ IF g[a].type = 0
       THEN g[a].variant = h[b].variant
       ELSE /\ Len(g[a].children) = Len(h[b].children)
            /\ \A c \in 1 .. Len(g[a].children) :
                    NodeEq(g, g[a].children[c], h, h[b].children[c])

\* C2: an assignment to a Node (copy or move, destination a leaf or a branch,
\* source a leaf or a branch) destructs the payload the destination held
\* exactly once: the child vector with the children of a branch, the string or
\* array of a leaf (the destructor of the other Variants releases nothing).
C2_AssignReleasesOnce ==
    [][\A d \in LiveIds(heap), n \in LiveIds(heap) :
          /\ (CopyAssignTo(d, n) /\ PayloadOwns(heap[d]))
                => NodeCopyAssign(heap, d, n).released = 1
          /\ \A order \in VectorMoveOrders :
                (MoveAssignTo(d, n, order) /\ PayloadOwns(heap[d]))
                    => NodeMoveAssign(heap, d, n, order).released = 1]_vars

\* C3: after dst = src, dst has the NodeType of src; for a leaf src the Variant
\* of dst has the discriminant and the value of the Variant of src; for a
\* branch src the children of dst are as many and each is a clone of the
\* corresponding child of src; src and what it owns are unchanged.
C3_CopyAssignDeep ==
    [][\A d \in LiveIds(heap), n \in LiveIds(heap) :
          CopyAssignTo(d, n) =>
              /\ heap'[d].type = heap[n].type
              /\ heap[n].type = 0 =>
                    /\ heap'[d].variant.type = heap[n].variant.type
                    /\ VariantEq(heap'[d].variant, heap[n].variant)
              /\ heap[n].type # 0 =>
                    /\ Len(heap'[d].children) = Len(heap[n].children)
                    /\ \A c \in 1 .. Len(heap[n].children) :
                          NodeEq(heap', heap'[d].children[c], heap, heap[n].children[c])
              /\ \A m \in Subtree(heap, n) : heap'[m] = heap[m]]_vars

\* C4: for a branch D and a Node N that D owns, directly or through other
\* Nodes, D = move(N) reads and writes no destroyed Node and leaves D with the
\* NodeType N had and the payload N had: its Variant, or its children, alive
\* and unchanged.
C4_MoveOwnedNode ==
    [][\A d \in LiveIds(heap), n \in LiveIds(heap), order \in VectorMoveOrders :
          (MoveAssignTo(d, n, order) /\ n \in Descendants(heap, d)) =>
              /\ ~uaf'
              /\ heap'[d].type = heap[n].type
              /\ heap[n].type = 0 => heap'[d].variant = heap[n].variant
              /\ heap[n].type # 0 =>
                    /\ heap'[d].children = heap[n].children
                    /\ \A c \in Range(heap[n].children) :
                          \A m \in Subtree(heap, c) : heap'[m] = heap[m]]_vars

\* every Node is owned at most once, and what is owned is alive
SingleOwner(h) ==
    \A n \in LiveIds(h) :
        /\ Cardinality(Owners(h, n)) <= 1
        /\ \A c \in Range(h[n].children) : h[c].live /\ c # n
        /\ \A i \in 1 .. Len(h[n].children), j \in 1 .. Len(h[n].children) :
                h[n].children[i] = h[n].children[j] => i = j

\* no Node of the tree of the root r is changed by the step
TreeUntouched(r) == \A m \in Subtree(heap, r) : heap'[m] = heap[m]

\* C5: the copy C constructed from a Node O is a tree equal to O (NodeType,
\* line, column, and the children recursively), it shares no Node with the tree
\* O is part of, every Node has one owner, and an operation applied to one tree
\* (an assignment to one of its Nodes, a child added or removed, its
\* destruction) changes no Node of another tree: what is done to the copy does
\* not reach the original, nor the reverse.
C5_CopyIndependent ==
    [][~uaf' =>
          /\ nlast'.op = "copy-construct" =>
                /\ NodeEq(heap', nlast'.dst, heap', nlast'.src)
                /\ IsRoot(heap', nlast'.dst)
                /\ Subtree(heap', nlast'.dst)
                        \cap Subtree(heap', RootOf(heap', nlast'.src)) = {}
          /\ \A r \in Roots(heap) \ nlast'.touched : TreeUntouched(r)
          /\ SingleOwner(heap')]_vars

\* C5 witness: a branch with a child was copied; both trees are alive
C5_Witness ==
    /\ nlast.op = "copy-construct"
    /\ heap[nlast.src].type # 0
    /\ heap[nlast.src].children # <<>>
    /\ heap[nlast.dst].children # <<>>
    /\ heap[nlast.dst].children # heap[nlast.src].children

(***************************************************************************)
(* Properties of Node::walk, checked under SpecWalk                        *)
(***************************************************************************)
\* the place of the node n in the sequence of visits
VisitsOf(n) == {i \in 1 .. Len(wvisit) : wvisit[i] = n}
VisitOf(n) == CHOOSE i \in VisitsOf(n) : TRUE

\* the visits are a pre-order of the tree of root
PreOrdered(root) ==
    /\ \A n \in Subtree(heap, root) : Cardinality(VisitsOf(n)) = 1
    /\ Len(wvisit) = Cardinality(Subtree(heap, root))
    /\ \A n \in Subtree(heap, root) :
          /\ \A m \in Descendants(heap, n) : VisitOf(n) < VisitOf(m)
          /\ \A i \in 1 .. Len(heap[n].children), j \in 1 .. Len(heap[n].children) :
                i < j =>
                    \A x \in Subtree(heap, heap[n].children[i]),
                       y \in Subtree(heap, heap[n].children[j]) : VisitOf(x) < VisitOf(y)

\* C9: walk(visitor) terminates, has then invoked the visitor exactly once on
\* every node of the tree, each node before its descendants, the children of a
\* branch in their stored order and the whole subtree of a child before the
\* next child; the visitor is invoked on no node twice and on no node outside
\* the tree at any time; the tree is left unchanged.
C9_WalkPreOrder ==
    /\ [](wpc = "walking" =>
            /\ \A i \in 1 .. Len(wvisit), j \in 1 .. Len(wvisit) :
                    wvisit[i] = wvisit[j] => i = j
            /\ Range(wvisit) \subseteq Subtree(heap, wstack[1].node))
    /\ [](wpc = "walking" =>
            \A i \in 2 .. Len(wstack) :
                /\ heap[wstack[i - 1].node].type # 0
                /\ wstack[i].node \in Range(heap[wstack[i - 1].node].children))
    /\ [](wpc = "done" => PreOrdered(wvisit[1]))
    /\ [][heap' = heap]_vars
    /\ (wpc = "walking" ~> wpc = "done")

\* C9 witness: a walk has returned from a tree in which a branch has two
\* children, the first of them a branch with a child of its own
C9_Witness ==
    /\ wpc = "done"
    /\ \E n \in Range(wvisit) :
          /\ Len(heap[n].children) >= 2
          /\ heap[heap[n].children[1]].children # <<>>


Next == NextVariant \/ NextNode \/ NextWalk

Spec == Init /\ [][Next]_vars

====
